---- MODULE Spec2Model ----
(***************************************************************************)
(* Model of the mock thermo-hygrometer logger (src/src/log_sensors_mock.py) *)
(* and of the schema validation command (src/validate.py,                   *)
(* src/src/utils/schema_validation.py).                                     *)
(*                                                                          *)
(* Temperatures and humidities are integers in hundredths of a unit         *)
(* (23.5 degrees is 2350).  A draw of rng.gauss(0, sigma) is z * sigma for   *)
(* a standard-normal z taken from the generator's pseudo-random stream.     *)
(***************************************************************************)
EXTENDS Integers, Sequences, FiniteSets, TLC

VARIABLES
    cfg,      \* MockDHT22 configuration: bounds and step sigmas (fixed at construction)
    seed,     \* the seed both generators are constructed with (None: unseeded)
    gen,      \* gen[g]: state of generator g: _t, _h, stream position, values returned
    tape,     \* tape[s]: the values stream s has produced so far (a fixed function of s)
    args,     \* arguments of run()
    pc,       \* position of run() / of validate.main()
    n,        \* run(): loop counter
    file,     \* content of the output file: the sequence of lines appended
    echoed,   \* number of lines printed to stdout
    now,      \* the wall clock read by utc_now_iso()
    reading,  \* run(): the record built by the current iteration
    outcome,  \* how run() / main() ended
    vfs,      \* validate: the state of the file at each directory
    cwd,      \* validate: the working directory
    vargs,    \* validate: command line (schema path, payload file)
    schema,   \* validate: result of load_schema
    payload,  \* validate: result of reading the payload file
    printed   \* validate: the lines printed

vars == <<cfg, seed, gen, tape, args, pc, n, file, echoed, now, reading, outcome,
          vfs, cwd, vargs, schema, payload, printed>>

genVars == <<cfg, seed, gen, tape>>
runVars == <<args, pc, n, file, echoed, now, reading, outcome>>
valVars == <<vfs, cwd, vargs, schema, payload, printed>>

----------------------------------------------------------------------------
(* Bounds of the model *)

MaxReads == 3      \* read() calls per generator in SpecGen
MaxCount == 5      \* largest --count given to run()
MaxLines == 3      \* lines after which an unbounded run (count <= 0) is cut off
ZMax == 9          \* largest magnitude of a standard-normal draw, in sigmas

Max(a, b) == IF a >= b THEN a ELSE b
Min(a, b) == IF a <= b THEN a ELSE b

None == <<>>
Some(x) == <<x>>

----------------------------------------------------------------------------
(* MockDHT22 *)

DefaultCfg ==
    [temp_start |-> 2350, hum_start |-> 5000,
     t_min |-> 1800, t_max |-> 3000, h_min |-> 3000, h_max |-> 7000,
     t_sigma |-> 15, h_sigma |-> 40]

\* Configurations a caller can construct (the constructor validates nothing).
GenConfigs ==
    { \* default bounds and sigmas, both walks starting next to a bound
      [DefaultCfg EXCEPT !.temp_start = 2990, !.hum_start = 3020],
      \* temperature bounds collapsed to one point; humidity with sigma 0
      [DefaultCfg EXCEPT !.t_min = 2350, !.t_max = 2350, !.h_sigma = 0],
      \* temperature with sigma 0; humidity bounds collapsed to one point
      [DefaultCfg EXCEPT !.t_sigma = 0, !.h_min = 5000, !.h_max = 5000],
      \* sigma 0 with the start outside the bounds; humidity starting at a bound
      [DefaultCfg EXCEPT !.t_sigma = 0, !.temp_start = 3100, !.hum_start = 7000],
      \* one-point bounds, sigma 0 and the start outside them
      [DefaultCfg EXCEPT !.h_sigma = 0, !.h_min = 5000, !.h_max = 5000,
                         !.hum_start = 5100, !.temp_start = 1810] }

Seeds == {None, Some(1), Some(2)}
GenDraws == {-1, 1}
RunDraws == {-ZMax, ZMax}

\* random.Random(seed): a seeded generator reads the stream of its seed, an
\* unseeded one a stream of its own (operating-system entropy).
FreshStreamOf(g, s) == <<"os", g>>
StreamOf(g, s) == IF s = None THEN <<"os", g>> ELSE <<"seed", s[1]>>

Streams == {<<"os", 1>>, <<"os", 2>>, <<"seed", 1>>, <<"seed", 2>>}

\* rng.gauss(0, sigma) = mu + z * sigma
GaussUnitSigma(z, sigma) == z
Gauss(z, sigma) == z * sigma

OutOfBounds(x, lo, hi) == x < lo \/ x > hi

\* max(min(x, hi), lo)
Clamp(x, lo, hi) == Max(Min(x, hi), lo)

\* round(x, 1): to the nearest tenth, a tie to the even tenth
Round1(x) ==
    LET q == x \div 10
        r == x % 10
    IN  IF r < 5 THEN q * 10
        ELSE IF r > 5 THEN (q + 1) * 10
        ELSE IF q % 2 = 0 THEN q * 10 ELSE (q + 1) * 10

\* The reflection step of one quantity: x is the value after the walk step,
\* z the next value of the stream (consumed only when x is out of bounds).
Reflect(x, lo, hi, sigma, z) ==
    IF OutOfBounds(x, lo, hi) THEN Clamp(x, lo, hi) + Gauss(z, sigma) * (-1) ELSE x

\* Number of stream values the reflection step of one quantity consumes.
ReflectDrawsAlways(x, lo, hi) == 1
ReflectDraws(x, lo, hi) == IF OutOfBounds(x, lo, hi) THEN 1 ELSE 0

\* MockDHT22.read() on state (t, h) under configuration c, d[1..4] being the
\* next four values of the stream: the new state, the pair returned and the
\* number of stream values consumed.
ReadResult(c, t, h, d) ==
    LET t1 == t + Gauss(d[1], c.t_sigma)
        h1 == h + Gauss(d[2], c.h_sigma)
        kt == ReflectDraws(t1, c.t_min, c.t_max)
        kh == ReflectDraws(h1, c.h_min, c.h_max)
        t2 == Reflect(t1, c.t_min, c.t_max, c.t_sigma, d[3])
        h2 == Reflect(h1, c.h_min, c.h_max, c.h_sigma, d[2 + kt + 1])
    IN  [t |-> t2, h |-> h2, used |-> 2 + kt + kh,
         treflected |-> OutOfBounds(t1, c.t_min, c.t_max),
         hreflected |-> OutOfBounds(h1, c.h_min, c.h_max),
         ret |-> <<Round1(t2), Round1(h2)>>]

\* MockDHT22.__init__ (treflects and hreflects count the calls of read() that took
\* the reflection branch of the temperature and of the humidity)
NewGen(c) ==
    [t |-> c.temp_start, h |-> c.hum_start, pos |-> 0, outs |-> <<>>,
     treflects |-> 0, hreflects |-> 0]

\* The values stream s can produce at position p + k: the one it has produced
\* already, or any value of draw set D where it has not got that far.
NextValues(s, p, k, D) == IF p + k <= Len(tape[s]) THEN {tape[s][p + k]} ELSE D

\* One call of gen[g].read(), the stream supplying values from draw set D
\* where it has not produced them yet.  The third and fourth values are drawn
\* only when the call consumes them.
SensorRead(g, D) ==
    LET s == StreamOf(g, seed)
        p == gen[g].pos
    IN  \E z1 \in NextValues(s, p, 1, D), z2 \in NextValues(s, p, 2, D) :
          LET u == ReadResult(cfg, gen[g].t, gen[g].h, <<z1, z2, 0, 0>>).used
          IN  \E z3 \in (IF u >= 3 THEN NextValues(s, p, 3, D) ELSE {0}),
                 z4 \in (IF u >= 4 THEN NextValues(s, p, 4, D) ELSE {0}) :
                LET d == <<z1, z2, z3, z4>>
                    r == ReadResult(cfg, gen[g].t, gen[g].h, d)
                IN  /\ gen' = [gen EXCEPT ![g] =
                                  [t |-> r.t, h |-> r.h, pos |-> p + u,
                                   outs |-> Append(@.outs, r.ret),
                                   treflects |-> @.treflects + (IF r.treflected THEN 1 ELSE 0),
                                   hreflects |-> @.hreflects + (IF r.hreflected THEN 1 ELSE 0)]]
                    /\ tape' = [tape EXCEPT ![s] =
                                   IF p + u <= Len(@) THEN @
                                   ELSE SubSeq(@, 1, p) \o SubSeq(d, 1, u)]

Read(g) ==
    /\ Len(gen[g].outs) < MaxReads
    /\ SensorRead(g, GenDraws)
    /\ UNCHANGED <<cfg, seed>>
    /\ UNCHANGED runVars
    /\ UNCHANGED valVars

----------------------------------------------------------------------------
(* run() *)

DeviceIds == {"edge-node-001", "self-test-node"}

\* (interval, echo_stdout) pairs given on the command line
RunModes == {<<-1, TRUE>>, <<0, FALSE>>, <<2, TRUE>>}

\* utc_now_iso(): the clock formatted to the second, with the Z suffix
UtcNowIso(clock) == <<clock, "Z">>

\* emit_reading(device_id, sensor), ret being what sensor.read() returned
EmitReadingFixedId(device_id, ret, clock) ==
    [timestamp |-> UtcNowIso(clock), temperature_C |-> ret[1], humidity |-> ret[2],
     device_id |-> "edge-node-001"]
EmitReading(device_id, ret, clock) ==
    [timestamp |-> UtcNowIso(clock), temperature_C |-> ret[1], humidity |-> ret[2],
     device_id |-> device_id]

\* JSONLWriter.append: the file after one line is added in mode "a"
AppendTruncating(f, line) == <<line>>
AppendLine(f, line) == Append(f, line)

\* the loop's exit test: 0 < count <= n
ExitLoopOffByOne(count, k) == 0 < count /\ count < k
ExitLoop(count, k) == 0 < count /\ count <= k

\* the positions of run() that lie inside its try block
InTry == {"emit", "append", "echo", "count", "sleep"}

Setup ==
    /\ pc = "setup"
    /\ gen' = [gen EXCEPT ![1] = NewGen(cfg)]
    /\ n' = 0
    /\ pc' = "emit"
    /\ UNCHANGED <<cfg, seed, tape, args, file, echoed, now, reading, outcome>>
    /\ UNCHANGED valVars

Emit ==
    /\ pc = "emit"
    /\ args.count > 0 \/ n < MaxLines
    /\ SensorRead(1, RunDraws)
    /\ reading' = EmitReading(args.device_id, gen'[1].outs[Len(gen'[1].outs)], now)
    /\ pc' = "append"
    /\ UNCHANGED <<cfg, seed, args, n, file, echoed, now, outcome>>
    /\ UNCHANGED valVars

AppendOk ==
    /\ pc = "append"
    /\ file' = AppendLine(file, reading)
    /\ pc' = "echo"
    /\ UNCHANGED <<args, n, echoed, now, reading, outcome>>
    /\ UNCHANGED genVars
    /\ UNCHANGED valVars

\* path.open or f.write raises OSError, which run() does not catch
AppendFails ==
    /\ pc = "append"
    /\ pc' = "done"
    /\ outcome' = "ioerror_raised"
    /\ UNCHANGED <<args, n, file, echoed, now, reading>>
    /\ UNCHANGED genVars
    /\ UNCHANGED valVars

Echo ==
    /\ pc = "echo"
    /\ echoed' = IF args.echo_stdout THEN echoed + 1 ELSE echoed
    /\ pc' = "count"
    /\ UNCHANGED <<args, n, file, now, reading, outcome>>
    /\ UNCHANGED genVars
    /\ UNCHANGED valVars

Count ==
    /\ pc = "count"
    /\ n' = n + 1
    /\ IF ExitLoop(args.count, n')
       THEN pc' = "done" /\ outcome' = "completed"
       ELSE pc' = "sleep" /\ UNCHANGED outcome
    /\ UNCHANGED <<args, file, echoed, now, reading>>
    /\ UNCHANGED genVars
    /\ UNCHANGED valVars

Sleep ==
    /\ pc = "sleep"
    /\ now' = now + Max(0, args.interval)
    /\ pc' = "emit"
    /\ UNCHANGED <<args, n, file, echoed, reading, outcome>>
    /\ UNCHANGED genVars
    /\ UNCHANGED valVars

\* KeyboardInterrupt: caught inside the try block, propagated outside it
Interrupt ==
    /\ pc \in InTry \cup {"setup"}
    /\ pc' = "done"
    /\ outcome' = IF pc \in InTry THEN "interrupted" ELSE "interrupt_raised"
    /\ UNCHANGED <<args, n, file, echoed, now, reading>>
    /\ UNCHANGED genVars
    /\ UNCHANGED valVars

NoReading == [timestamp |-> UtcNowIso(0), temperature_C |-> 0, humidity |-> 0,
              device_id |-> ""]

----------------------------------------------------------------------------
(* load_schema, validate_payload and the validation command *)

\* Where a file named by the schema argument can lie: under PROJECT_ROOT, under
\* SRC_ROOT, or under some other directory.
Dirs == {"project", "src", "other"}

Keys == {"timestamp", "temperature_C"}

\* A parsed JSON document is [props |-> S]: a schema is the set S of properties
\* it requires, a payload the set S of properties it has.  NoDoc: no document.
NoDoc == [props |-> {"-"}]

\* A file: absent, present but not loadable as JSON, or the text of a document.
Files ==
    {[state |-> "absent", props |-> {}], [state |-> "garbled", props |-> {}]}
        \cup [state : {"json"}, props : SUBSET Keys]
IsJson(f) == f.state = "json"

\* json.load(f)
JsonLoad(f) == [props |-> f.props]

\* Path(rel_path), PROJECT_ROOT / rel_path, SRC_ROOT / rel_path: what each
\* candidate is printed as and the directory it resolves to.  Joining a root
\* with an absolute path gives the absolute path.
Candidates(rel, wd) ==
    IF rel.abs
    THEN [i \in 1..3 |-> [shown |-> <<"/", rel.dir>>, at |-> rel.dir]]
    ELSE <<[shown |-> <<".">>, at |-> wd],
           [shown |-> <<"PROJECT_ROOT">>, at |-> "project"],
           [shown |-> <<"SRC_ROOT">>, at |-> "src"]>>

\* cand.exists()
Exists(fs, cand) == fs[cand.at].state # "absent"

\* The loop over the candidates: the index of the first that exists, 0 if none.
LastExisting(fs, cands) ==
    IF \E i \in 1..Len(cands) : Exists(fs, cands[i])
    THEN CHOOSE i \in 1..Len(cands) :
            Exists(fs, cands[i]) /\ \A j \in (i + 1)..Len(cands) : ~Exists(fs, cands[j])
    ELSE 0
FirstExisting(fs, cands) ==
    IF \E i \in 1..Len(cands) : Exists(fs, cands[i])
    THEN CHOOSE i \in 1..Len(cands) :
            Exists(fs, cands[i]) /\ \A j \in 1..(i - 1) : ~Exists(fs, cands[j])
    ELSE 0

\* load_schema(rel_path) with working directory wd on file system fs
LoadSchemaResult(fs, rel, wd) ==
    LET cands == Candidates(rel, wd)
        i     == FirstExisting(fs, cands)
    IN  IF i = 0
        THEN [kind |-> "FileNotFoundError", content |-> NoDoc, from |-> 0,
              tried |-> [k \in 1..3 |-> cands[k].shown]]
        ELSE IF IsJson(fs[cands[i].at])
        THEN [kind |-> "ok", content |-> JsonLoad(fs[cands[i].at]), from |-> i,
              tried |-> <<>>]
        ELSE [kind |-> "JSONDecodeError", content |-> NoDoc, from |-> i, tried |-> <<>>]

\* Draft202012Validator(schema).validate(payload): the required properties
Conforms(pl, sch) == sch.props \subseteq pl.props

\* validate_payload(payload, schema): returns None or raises ValidationError
ValidatePayloadSwallow(pl, sch) == "None"
ValidatePayload(pl, sch) == IF Conforms(pl, sch) THEN "None" ELSE "ValidationError"

NoSchema == [kind |-> "unset", content |-> NoDoc, from |-> 0, tried |-> <<>>]

\* schema = load_schema(args.schema)
MainLoadSchema ==
    /\ pc = "load"
    /\ schema' = LoadSchemaResult(vfs, vargs.schema, cwd)
    /\ IF schema'.kind = "ok"
       THEN pc' = "read" /\ UNCHANGED outcome
       ELSE pc' = "exit" /\ outcome' = schema'.kind
    /\ UNCHANGED <<vfs, cwd, vargs, payload, printed>>
    /\ UNCHANGED <<args, n, file, echoed, now, reading>>
    /\ UNCHANGED genVars

\* with open(args.json_file) as f: payload = json.load(f)
MainReadPayload ==
    /\ pc = "read"
    /\ IF IsJson(vargs.json_file)
       THEN payload' = JsonLoad(vargs.json_file) /\ pc' = "validate" /\ UNCHANGED outcome
       ELSE /\ pc' = "exit"
            /\ outcome' = IF vargs.json_file.state = "absent" THEN "FileNotFoundError"
                          ELSE "JSONDecodeError"
            /\ UNCHANGED payload
    /\ UNCHANGED <<vfs, cwd, vargs, schema, printed>>
    /\ UNCHANGED <<args, n, file, echoed, now, reading>>
    /\ UNCHANGED genVars

\* validate_payload(payload, schema)
MainValidate ==
    /\ pc = "validate"
    /\ IF ValidatePayload(payload, schema.content) = "None"
       THEN pc' = "print" /\ UNCHANGED outcome
       ELSE pc' = "exit" /\ outcome' = "ValidationError"
    /\ UNCHANGED valVars
    /\ UNCHANGED <<args, n, file, echoed, now, reading>>
    /\ UNCHANGED genVars

\* print("OK")
MainPrint ==
    /\ pc = "print"
    /\ printed' = Append(printed, "OK")
    /\ pc' = "exit"
    /\ outcome' = "exit0"
    /\ UNCHANGED <<vfs, cwd, vargs, schema, payload>>
    /\ UNCHANGED <<args, n, file, echoed, now, reading>>
    /\ UNCHANGED genVars

----------------------------------------------------------------------------
(* Specifications *)

RunIdle ==
    /\ args = [device_id |-> "", interval |-> 0, count |-> 0, echo_stdout |-> FALSE]
    /\ pc = "idle" /\ n = 0 /\ file = <<>> /\ echoed = 0 /\ now = 0
    /\ reading = NoReading /\ outcome = "idle"

ValIdle ==
    /\ vfs = [d \in Dirs |-> [state |-> "absent", props |-> {}]] /\ cwd = "project"
    /\ vargs = [schema |-> [abs |-> FALSE, dir |-> "project"], json_file |-> [state |-> "absent", props |-> {}]]
    /\ schema = NoSchema /\ payload = NoDoc /\ printed = <<>>

\* Two generators constructed independently with the same seed and the same
\* configuration, as the two runs of _self_tests are.
InitGen ==
    /\ cfg \in GenConfigs
    /\ seed \in Seeds \ {None}
    /\ gen = [g \in {1, 2} |-> NewGen(cfg)]
    /\ tape = [s \in Streams |-> <<>>]
    /\ RunIdle
    /\ ValIdle

NextGen == \E g \in {1, 2} : Read(g)

SpecGen == InitGen /\ [][NextGen]_vars

\* One call of run(): MockDHT22(seed=seed) has the default configuration.
InitRun ==
    /\ cfg = DefaultCfg
    /\ seed \in Seeds
    /\ gen = [g \in {1, 2} |-> NewGen(cfg)]
    /\ tape = [s \in Streams |-> <<>>]
    /\ \E d \in DeviceIds, m \in RunModes, c \in -1..MaxCount :
          args = [device_id |-> d, interval |-> m[1], count |-> c, echo_stdout |-> m[2]]
    /\ pc = "setup" /\ n = 0 /\ file = <<>> /\ echoed = 0 /\ now = 0
    /\ reading = NoReading /\ outcome = "running"
    /\ ValIdle

NextRun ==
    \/ Setup
    \/ Emit
    \/ AppendOk
    \/ AppendFails
    \/ Echo
    \/ Count
    \/ Sleep
    \/ Interrupt

SpecRun == InitRun /\ [][NextRun]_vars

\* One run of the validation command on some file system.
InitVal ==
    /\ cfg = DefaultCfg /\ seed = None
    /\ gen = [g \in {1, 2} |-> NewGen(cfg)]
    /\ tape = [s \in Streams |-> <<>>]
    /\ args = [device_id |-> "", interval |-> 0, count |-> 0, echo_stdout |-> FALSE]
    /\ n = 0 /\ file = <<>> /\ echoed = 0 /\ now = 0 /\ reading = NoReading
    /\ vfs \in [Dirs -> Files]
    /\ cwd \in Dirs
    /\ \E a \in BOOLEAN, d \in Dirs, j \in Files :
          /\ ~a => d = "project"
          /\ vargs = [schema |-> [abs |-> a, dir |-> d], json_file |-> j]
    /\ schema = NoSchema /\ payload = NoDoc /\ printed = <<>>
    /\ pc = "load" /\ outcome = "running"

NextVal ==
    \/ MainLoadSchema
    \/ MainReadPayload
    \/ MainValidate
    \/ MainPrint

SpecVal == InitVal /\ [][NextVal]_vars

----------------------------------------------------------------------------
(* Properties *)

Gens == {1, 2}

TempStartInBounds(c) == c.t_min <= c.temp_start /\ c.temp_start <= c.t_max
HumStartInBounds(c) == c.h_min <= c.hum_start /\ c.hum_start <= c.h_max

\* C1: when the starting values lie within their bounds, after every call of
\* read() the internal temperature lies in [t_min, t_max] and the internal
\* humidity in [h_min, h_max].
C1_WithinBounds ==
    (TempStartInBounds(cfg) /\ HumStartInBounds(cfg)) =>
        \A g \in Gens : Len(gen[g].outs) >= 1 =>
            /\ cfg.t_min <= gen[g].t /\ gen[g].t <= cfg.t_max
            /\ cfg.h_min <= gen[g].h /\ gen[g].h <= cfg.h_max

\* C2: two generators constructed with the same seed and the same configuration
\* return element-wise identical sequences, and after the same number of calls
\* they are in the same state.
C2_Determinism ==
    seed # None =>
        /\ \A k \in 1..Min(Len(gen[1].outs), Len(gen[2].outs)) :
              gen[1].outs[k] = gen[2].outs[k]
        /\ Len(gen[1].outs) = Len(gen[2].outs) => gen[1] = gen[2]

\* Both generators have been read twice, a clamp having consumed extra draws.
C2_Witness ==
    /\ seed # None
    /\ Len(gen[1].outs) = 2 /\ Len(gen[2].outs) = 2
    /\ gen[1].pos > 4

\* the steps of run()'s loop
LoopStep == Emit \/ AppendOk \/ Echo \/ Count \/ Sleep

LinesWhileLooping == n + (IF pc \in {"echo", "count"} THEN 1 ELSE 0)

\* C3: run() with count = N > 0 leaves its loop by itself exactly when N lines
\* have been appended (until then it has appended fewer, one per iteration, and
\* can take its next step); run() with count = 0 leaves the loop only by an
\* interrupt or a write error, and its line count follows the iterations.
C3_ExactCount ==
    /\ outcome = "completed" =>
          args.count > 0 /\ n = args.count /\ Len(file) = args.count
    /\ (args.count > 0 /\ pc \in InTry) =>
          /\ n < args.count
          /\ Len(file) = LinesWhileLooping
          /\ ENABLED LoopStep
    /\ (args.count = 0 /\ outcome \notin {"interrupted", "interrupt_raised", "ioerror_raised"}) =>
          /\ outcome = "running" /\ pc # "done"
          /\ pc \in InTry => Len(file) = LinesWhileLooping
          /\ (pc \in InTry /\ ~(pc = "emit" /\ n >= MaxLines)) => ENABLED LoopStep

\* The self-test's run: count = 5 ended with five lines.
C3_Witness == outcome = "completed" /\ args.count = 5 /\ Len(file) = 5

SchemaErrors == {"FileNotFoundError", "JSONDecodeError", "ValidationError"}

\* C4: validate_payload returns normally exactly when the payload has every
\* property the schema requires and raises ValidationError otherwise; OK is
\* printed only after load_schema and validate_payload both returned, and a
\* failed run prints nothing.
C4_NoSwallow ==
    /\ (pc = "print" \/ printed # <<>>) =>
          /\ schema.kind = "ok" /\ payload # NoDoc
          /\ schema.content.props \subseteq payload.props
    /\ printed # <<>> => printed = <<"OK">> /\ outcome = "exit0"
    /\ outcome = "ValidationError" =>
          /\ schema.kind = "ok" /\ payload # NoDoc
          /\ ~(schema.content.props \subseteq payload.props)
    /\ outcome \in SchemaErrors => pc = "exit" /\ printed = <<>>
    /\ schema.kind \in SchemaErrors => outcome = schema.kind

\* The payload lacks the required temperature_C and the command ended with
\* ValidationError.
C4_Witness ==
    /\ outcome = "ValidationError"
    /\ "temperature_C" \in schema.content.props \ payload.props

\* the directory each candidate of load_schema resolves to, in the order tried
TriedAt ==
    IF vargs.schema.abs THEN [i \in 1..3 |-> vargs.schema.dir]
    ELSE <<cwd, "project", "src">>

\* C5: load_schema returns the parsed content of the first existing candidate
\* in the order working directory, PROJECT_ROOT, SRC_ROOT, never that of a later
\* one; when no candidate exists it raises FileNotFoundError naming all three
\* candidates and returns no content.
C5_LoadOrder ==
    schema.kind # "unset" =>
        /\ schema.kind = "ok" =>
              \E i \in 1..3 :
                  /\ schema.from = i
                  /\ vfs[TriedAt[i]].state = "json"
                  /\ schema.content.props = vfs[TriedAt[i]].props
                  /\ \A j \in 1..(i - 1) : vfs[TriedAt[j]].state = "absent"
        /\ (\E i \in 1..3 : /\ vfs[TriedAt[i]].state = "json"
                           /\ \A j \in 1..(i - 1) : vfs[TriedAt[j]].state = "absent")
              => schema.kind = "ok"
        /\ (\A i \in 1..3 : vfs[TriedAt[i]].state = "absent")
              <=> schema.kind = "FileNotFoundError"
        /\ schema.kind = "FileNotFoundError" =>
              /\ schema.content = NoDoc
              /\ Len(schema.tried) = 3
              /\ \A i \in 1..3 :
                    schema.tried[i] = Candidates(vargs.schema, cwd)[i].shown

\* The schema came from PROJECT_ROOT although SRC_ROOT holds a different one.
C5_Witness ==
    /\ schema.kind = "ok" /\ schema.from = 2
    /\ vfs["src"].state = "json" /\ vfs["src"].props # schema.content.props

\* C6 as stated: an interrupt at any point of run() makes run() return normally
\* and leaves the file as it was.
C6_AnyPoint ==
    [][Interrupt => (outcome' = "interrupted" /\ file' = file)]_vars

\* C6, amended: an interrupt arriving inside the try block of run() makes run()
\* return normally; no step ever removes or changes a line already appended, and
\* nothing is written once run() has ended.
C6_CleanShutdown ==
    [][/\ (Interrupt /\ pc \in InTry) =>
             (outcome' = "interrupted" /\ pc' = "done" /\ file' = file)
       /\ Len(file') >= Len(file) /\ SubSeq(file', 1, Len(file)) = file
       /\ pc = "done" => file' = file]_vars

\* Interrupted between the second append and the increment of n.
C6_Witness == outcome = "interrupted" /\ Len(file) = 2 /\ n = 1

\* C7: every line run() appends has exactly the four keys, the caller's device
\* id, a temperature in [10.0, 40.0] and a humidity in [0.0, 100.0].
C7_Lines ==
    \A i \in 1..Len(file) :
        /\ DOMAIN file[i] = {"timestamp", "temperature_C", "humidity", "device_id"}
        /\ file[i].device_id = args.device_id
        /\ 1000 <= file[i].temperature_C /\ file[i].temperature_C <= 4000
        /\ 0 <= file[i].humidity /\ file[i].humidity <= 10000

\* A line written after the walk was reflected at the upper temperature bound.
C7_Witness ==
    /\ args.device_id = "self-test-node"
    /\ \E i \in 1..Len(file) : file[i].temperature_C > 3000

\* C8: a call of read() consumes 2 + k stream values, k being the number of the
\* two quantities out of bounds after the first step, in the order temperature
\* step, humidity step, temperature correction, humidity correction; a quantity
\* in bounds keeps its stepped value, one out of bounds is clamped to the nearest
\* bound and has one negated draw added.
C8_Draws ==
    [][\A g \in Gens : gen'[g] # gen[g] =>
          LET s    == StreamOf(g, seed)
              p    == gen[g].pos
              t1   == gen[g].t + tape'[s][p + 1] * cfg.t_sigma
              h1   == gen[g].h + tape'[s][p + 2] * cfg.h_sigma
              tOut == t1 < cfg.t_min \/ t1 > cfg.t_max
              hOut == h1 < cfg.h_min \/ h1 > cfg.h_max
              k    == (IF tOut THEN 1 ELSE 0) + (IF hOut THEN 1 ELSE 0)
              hAt  == IF tOut THEN p + 4 ELSE p + 3
          IN  /\ gen'[g].pos = p + 2 + k
              /\ Len(tape'[s]) >= p + 2 + k
              /\ gen'[g].t = IF ~tOut THEN t1
                             ELSE (IF t1 < cfg.t_min THEN cfg.t_min ELSE cfg.t_max)
                                    - tape'[s][p + 3] * cfg.t_sigma
              /\ gen'[g].h = IF ~hOut THEN h1
                             ELSE (IF h1 < cfg.h_min THEN cfg.h_min ELSE cfg.h_max)
                                    - tape'[s][hAt] * cfg.h_sigma
              /\ gen'[g].pos = 2 * Len(gen'[g].outs) + gen'[g].treflects + gen'[g].hreflects]_vars

\* Two calls, one that clamped both quantities and one that clamped one.
C8_Witness == \E g \in Gens : Len(gen[g].outs) = 2 /\ gen[g].pos = 7

\* C9: with min = max, a call of read() that clamps the quantity leaves it at
\* that point (so it is pinned from the first clamp on).
C9_Pinned ==
    [][\A g \in Gens :
          /\ (cfg.t_min = cfg.t_max /\ gen'[g].treflects > gen[g].treflects)
                => gen'[g].t = cfg.t_min
          /\ (cfg.h_min = cfg.h_max /\ gen'[g].hreflects > gen[g].hreflects)
                => gen'[g].h = cfg.h_min]_vars

\* C10 as stated: with sigma = 0 the value stays at its start, within bounds,
\* and the reflection branch is never taken.
C10_AnyStart ==
    \A g \in Gens : Len(gen[g].outs) >= 1 =>
        /\ cfg.t_sigma = 0 =>
              /\ gen[g].t = cfg.temp_start /\ gen[g].treflects = 0
              /\ cfg.t_min <= gen[g].t /\ gen[g].t <= cfg.t_max
        /\ cfg.h_sigma = 0 =>
              /\ gen[g].h = cfg.hum_start /\ gen[g].hreflects = 0
              /\ cfg.h_min <= gen[g].h /\ gen[g].h <= cfg.h_max

\* C10, amended: with sigma = 0 and the start within the bounds, the value
\* stays at its start, within bounds, and the reflection branch is never taken.
C10_Still ==
    \A g \in Gens : Len(gen[g].outs) >= 1 =>
        /\ (cfg.t_sigma = 0 /\ TempStartInBounds(cfg)) =>
              /\ gen[g].t = cfg.temp_start /\ gen[g].treflects = 0
              /\ cfg.t_min <= gen[g].t /\ gen[g].t <= cfg.t_max
        /\ (cfg.h_sigma = 0 /\ HumStartInBounds(cfg)) =>
              /\ gen[g].h = cfg.hum_start /\ gen[g].hreflects = 0
              /\ cfg.h_min <= gen[g].h /\ gen[g].h <= cfg.h_max

\* A walk with sigma 0 that started in bounds has been read twice.
C10_Witness ==
    /\ cfg.h_sigma = 0 /\ HumStartInBounds(cfg)
    /\ Len(gen[1].outs) = 2

====
